---- MODULE Spec2Model ----
(***************************************************************************)
(* A model of update_dashboard.py: the column resolver, the per-row        *)
(* normaliser and the dataset assembly of process_data, analyze_keywords,  *)
(* and the step sequence of main.                                          *)
(*                                                                         *)
(* Text is modelled as a sequence of Unicode code points, so that the      *)
(* regular-expression ranges, lower(), strip() and slicing of the source   *)
(* are computed on the characters themselves.  The text each literal       *)
(* stands for is given in the comment next to it.                          *)
(***************************************************************************)
EXTENDS Integers, Sequences, FiniteSets, TLC

VARIABLES
    pc,              \* main: the step main is about to run
    excel_path,      \* main: result of find_latest_excel ("unset", "None", "file")
    df,              \* main: result of read_excel_data (NoTable or a table)
    data,            \* main: result of process_data (NoData or a Dataset)
    html,            \* index.html in PROJECT_FOLDER: "old", "new" or "truncated"
    steps,           \* the step numbers print_step has printed, in order
    updated,         \* result of update_html ("unset", "True", "False")
    pushed,          \* result of push_to_github ("unset", "True", "False")
    columns,         \* resolver: df.columns, the input column labels
    actual_columns,  \* resolver: the column map built from columns
    notes,           \* analyze_keywords: its record sequence
    metric,          \* analyze_keywords: its ranking metric
    keywords         \* analyze_keywords: its result

vars == << pc, excel_path, df, data, html, steps, updated, pushed,
           columns, actual_columns, notes, metric, keywords >>

mainVars == << excel_path, df, data, html, steps, updated, pushed >>
resolverVars == << columns, actual_columns >>
keywordVars == << notes, metric, keywords >>

(***************************************************************************)
(* Text helpers: str.lower, str.strip, the `in` operator on strings.       *)
(***************************************************************************)

\* str.lower() on one character: A-Z to a-z; CJK and digits are unchanged.
LowerChar(c) == IF c \in 65..90 THEN c + 32 ELSE c

Lower(s) == [i \in 1..Len(s) |-> LowerChar(s[i])]

\* Whitespace for str.strip(), str.split() and the regex class \s:
\* tab, LF, VT, FF, CR, space, no-break space, ideographic space.
IsSpace(c) == c \in {9, 10, 11, 12, 13, 32, 160, 12288}

RECURSIVE LStrip(_)
LStrip(s) ==
    IF s # <<>> /\ IsSpace(Head(s)) THEN LStrip(Tail(s)) ELSE s

RECURSIVE RStrip(_)
RStrip(s) ==
    IF s # <<>> /\ IsSpace(s[Len(s)]) THEN RStrip(SubSeq(s, 1, Len(s) - 1)) ELSE s

Strip(s) == RStrip(LStrip(s))

\* a in b, for strings
IsSubstr(a, b) ==
    \E i \in 0..(Len(b) - Len(a)) : SubSeq(b, i + 1, i + Len(a)) = a

\* x in xs, for a sequence xs
Contains(xs, x) == \E i \in 1..Len(xs) : xs[i] = x

(***************************************************************************)
(* process_data: the candidate names of every canonical field.             *)
(***************************************************************************)
column_mappings == [
    \* title: '笔记标题', '标题', 'title', '内容标题'
    title |-> << <<31508, 35760, 26631, 39064>>,
                 <<26631, 39064>>,
                 <<116, 105, 116, 108, 101>>,
                 <<20869, 23481, 26631, 39064>> >>,
    \* date: '发布时间', '发布日期', 'date', '时间', '创建时间'
    date |-> << <<21457, 24067, 26102, 38388>>,
                <<21457, 24067, 26085, 26399>>,
                <<100, 97, 116, 101>>,
                <<26102, 38388>>,
                <<21019, 24314, 26102, 38388>> >>,
    \* type: '笔记类型', '类型', 'type', '内容类型'
    type |-> << <<31508, 35760, 31867, 22411>>,
                <<31867, 22411>>,
                <<116, 121, 112, 101>>,
                <<20869, 23481, 31867, 22411>> >>,
    \* impressions: '曝光量', '曝光', 'impressions', '展现量', '展现'
    impressions |-> << <<26333, 20809, 37327>>,
                       <<26333, 20809>>,
                       <<105, 109, 112, 114, 101, 115, 115, 105, 111, 110, 115>>,
                       <<23637, 29616, 37327>>,
                       <<23637, 29616>> >>,
    \* views: '阅读量', '观看量', 'views', '播放量', '点击量'
    views |-> << <<38405, 35835, 37327>>,
                 <<35266, 30475, 37327>>,
                 <<118, 105, 101, 119, 115>>,
                 <<25773, 25918, 37327>>,
                 <<28857, 20987, 37327>> >>,
    \* ctr: '点击率', 'ctr', '点击转化率'
    ctr |-> << <<28857, 20987, 29575>>,
               <<99, 116, 114>>,
               <<28857, 20987, 36716, 21270, 29575>> >>,
    \* likes: '点赞数', '点赞', 'likes', '赞'
    likes |-> << <<28857, 36190, 25968>>,
                 <<28857, 36190>>,
                 <<108, 105, 107, 101, 115>>,
                 <<36190>> >>,
    \* comments: '评论数', '评论', 'comments'
    comments |-> << <<35780, 35770, 25968>>,
                    <<35780, 35770>>,
                    <<99, 111, 109, 109, 101, 110, 116, 115>> >>,
    \* collects: '收藏数', '收藏', 'collects', '收藏量'
    collects |-> << <<25910, 34255, 25968>>,
                    <<25910, 34255>>,
                    <<99, 111, 108, 108, 101, 99, 116, 115>>,
                    <<25910, 34255, 37327>> >>,
    \* followers: '涨粉数', '涨粉', 'followers', '新增粉丝', '粉丝增长'
    followers |-> << <<28072, 31881, 25968>>,
                     <<28072, 31881>>,
                     <<102, 111, 108, 108, 111, 119, 101, 114, 115>>,
                     <<26032, 22686, 31881, 19997>>,
                     <<31881, 19997, 22686, 38271>> >>,
    \* shares: '分享数', '分享', 'shares', '分享量'
    shares |-> << <<20998, 20139, 25968>>,
                  <<20998, 20139>>,
                  <<115, 104, 97, 114, 101, 115>>,
                  <<20998, 20139, 37327>> >>,
    \* avgViewTime: '平均阅读时长', '平均观看时长', 'avgViewTime', '平均时长'
    avgViewTime |-> << <<24179, 22343, 38405, 35835, 26102, 38271>>,
                       <<24179, 22343, 35266, 30475, 26102, 38271>>,
                       <<97, 118, 103, 86, 105, 101, 119, 84, 105, 109, 101>>,
                       <<24179, 22343, 26102, 38271>> >> ]

Fields == DOMAIN column_mappings

(***************************************************************************)
(* process_data, lines 170-190: the column resolver.                       *)
(***************************************************************************)

\* The result of looking one thing up: found or not, and what was found.
Found(col) == [found |-> TRUE, col |-> col]
NotFound == [found |-> FALSE, col |-> <<>>]

\* df_columns_lower = {col.lower().strip(): col for col in df.columns}:
\* the keys of the dictionary, and the label stored under a key (the last
\* label with that key, since a later entry overwrites an earlier one).
df_columns_lower_keys(cols) == { Strip(Lower(cols[i])) : i \in 1..Len(cols) }

df_columns_lower_get(cols, key) ==
    LET hits == { i \in 1..Len(cols) : Strip(Lower(cols[i])) = key }
    IN  cols[CHOOSE i \in hits : \A j \in hits : j <= i]

\* A variant of the substring tier that also accepts a label contained in
\* the candidate name.
SubstringTest_EitherWay(name, col) ==
    \/ IsSubstr(name, col) \/ IsSubstr(Lower(name), Lower(col))
    \/ IsSubstr(col, name) \/ IsSubstr(Lower(col), Lower(name))

\* Line 186: the test of the substring tier for one label.
SubstringTest(name, col) ==
    IsSubstr(name, col) \/ IsSubstr(Lower(name), Lower(col))

\* Lines 185-188: the first label, in column order, that passes the test.
RECURSIVE SubstringMatch(_, _, _)
SubstringMatch(name, cols, i) ==
    IF i > Len(cols) THEN NotFound
    ELSE IF SubstringTest(name, cols[i]) THEN Found(cols[i])
    ELSE SubstringMatch(name, cols, i + 1)

\* A variant of the tiers of one candidate that tries the substring tier
\* first.
MatchName_SubstringFirst(name, cols) ==
    IF SubstringMatch(name, cols, 1).found THEN SubstringMatch(name, cols, 1)
    ELSE IF Contains(cols, name) THEN Found(name)
    ELSE IF Lower(name) \in df_columns_lower_keys(cols)
         THEN Found(df_columns_lower_get(cols, Lower(name)))
    ELSE NotFound

\* Lines 176-188: the three tiers tried for one candidate name.
MatchName(name, cols) ==
    IF Contains(cols, name) THEN Found(name)
    ELSE IF Lower(name) \in df_columns_lower_keys(cols)
         THEN Found(df_columns_lower_get(cols, Lower(name)))
    ELSE SubstringMatch(name, cols, 1)

\* Lines 175-190: the candidates of one field in listed order; the first
\* candidate that matches decides the field.
RECURSIVE ResolveField(_, _, _)
ResolveField(possible_names, cols, k) ==
    IF k > Len(possible_names) THEN NotFound
    ELSE LET m == MatchName(possible_names[k], cols)
         IN  IF m.found THEN m ELSE ResolveField(possible_names, cols, k + 1)

\* Lines 171-190: the column map, defined on the resolved fields only.
ResolveColumns(cols) ==
    LET r == [f \in Fields |-> ResolveField(column_mappings[f], cols, 1)]
    IN  [f \in { g \in Fields : r[g].found } |-> r[f].col]

(***************************************************************************)
(* Table cells.  A cell is what pandas hands to row[label]: the missing    *)
(* marker (NaN), a string, a number or a Timestamp.  text is str(cell).    *)
(***************************************************************************)
NullCell == [kind |-> "null", text |-> <<110, 97, 110>>]      \* NaN, 'nan'
StrCell(t) == [kind |-> "str", text |-> t]
NumCell(t) == [kind |-> "num", text |-> t]
TsCell(t) == [kind |-> "ts", text |-> t]      \* '2024-03-15 00:00:00'

\* row[label]: rows are aligned with the column labels, which are distinct.
CellOf(row, cols, label) ==
    row[CHOOSE i \in 1..Len(cols) : cols[i] = label]

\* Whether the name pd is bound where process_data looks it up.  pandas is
\* imported as pd inside read_excel_data and inside main only, so in
\* process_data pd is an unbound global and pd.notna / pd.isna raise
\* NameError.
PdBound == FALSE

(***************************************************************************)
(* float(), int() and round() on decimal text.  A number is kept exactly   *)
(* as m * 10^-e.                                                           *)
(***************************************************************************)
IsDigit(c) == c \in 48..57

RECURSIVE Pow10(_)
Pow10(e) == IF e = 0 THEN 1 ELSE 10 * Pow10(e - 1)

RECURSIVE DigitsToInt(_, _)
DigitsToInt(s, acc) ==
    IF s = <<>> THEN acc
    ELSE DigitsToInt(Tail(s), IF IsDigit(Head(s)) THEN 10 * acc + (Head(s) - 48) ELSE acc)

RECURSIVE Dec(_, _)
Dec(m, e) ==
    IF e > 0 /\ m % 10 = 0 THEN Dec(m \div 10, e - 1) ELSE [m |-> m, e |-> e]

\* str.replace(c, '') for every c in chars
RemoveChars(s, chars) == SelectSeq(s, LAMBDA c : c \notin chars)

\* float(text): surrounding whitespace, an optional sign, digits with at
\* most one decimal point.  Anything else is a ValueError (ok = FALSE).
WellFormedNumber(body) ==
    /\ \A i \in 1..Len(body) : IsDigit(body[i]) \/ body[i] = 46
    /\ Cardinality({ i \in 1..Len(body) : body[i] = 46 }) <= 1
    /\ \E i \in 1..Len(body) : IsDigit(body[i])

\* the number of digits behind the decimal point
FractionDigits(body) ==
    Cardinality({ i \in 1..Len(body) : \E j \in 1..(i - 1) : body[j] = 46 })

ParseUnsigned(body, negative) ==
    IF WellFormedNumber(body)
    THEN [ok |-> TRUE,
          val |-> Dec(IF negative THEN 0 - DigitsToInt(body, 0) ELSE DigitsToInt(body, 0),
                      FractionDigits(body))]
    ELSE [ok |-> FALSE, val |-> Dec(0, 0)]

ParseSigned(s) ==
    IF s # <<>> /\ s[1] \in {43, 45}
    THEN ParseUnsigned(Tail(s), s[1] = 45)
    ELSE ParseUnsigned(s, FALSE)

ParseFloat(text) == ParseSigned(Strip(text))

\* int(x): truncation toward zero
TruncToInt(d) ==
    IF d.m >= 0 THEN d.m \div Pow10(d.e) ELSE 0 - ((0 - d.m) \div Pow10(d.e))

\* x / 100
DivideBy100(d) == Dec(d.m, d.e + 2)

\* x > 1
GreaterThanOne(d) == d.m > Pow10(d.e)

\* round(a / b, 3) for integers a and b > 0: to the nearest thousandth,
\* a tie going to the even one.
RoundDiv3(a, b) ==
    LET n == IF a >= 0 THEN a ELSE 0 - a
        q == (n * 1000) \div b
        r == (n * 1000) % b
        up == IF 2 * r > b THEN 1 ELSE IF 2 * r = b THEN q % 2 ELSE 0
    IN  Dec(IF a >= 0 THEN q + up ELSE 0 - (q + up), 3)

(***************************************************************************)
(* process_data, lines 197-268: one row to one record.                     *)
(***************************************************************************)
numeric_fields ==
    << "impressions", "views", "likes", "comments",
       "collects", "followers", "shares", "avgViewTime" >>

\* '视频' and '图文'
Video == <<35270, 39057>>
ImageText == <<22270, 25991>>

\* Line 202: str(row[title column]).strip()
NormalizeTitle(row, cols, actual) ==
    Strip(CellOf(row, cols, actual["title"]).text)

\* Lines 223-227
NormalizeType(row, cols, actual) ==
    IF "type" \in DOMAIN actual
    THEN IF IsSubstr(Video, Strip(CellOf(row, cols, actual["type"]).text))
         THEN Video ELSE ImageText
    ELSE ImageText

\* Lines 238-243: the value of a numeric cell.  With pd unbound the
\* NameError of pd.isna is raised inside the try and the bare except turns
\* it into 0, whatever the cell holds.
IntOrZero(p) == IF p.ok THEN TruncToInt(p.val) ELSE 0

NumericValue(val) ==
    IF ~PdBound THEN 0
    ELSE IF val.kind = "null" THEN 0
    ELSE IntOrZero(ParseFloat(RemoveChars(val.text, {44, 37})))

\* Lines 234-245: the value of one numeric field
NormalizeNumeric(row, cols, actual, field) ==
    IF field \in DOMAIN actual
    THEN NumericValue(CellOf(row, cols, actual[field]))
    ELSE 0

\* Lines 253-254, 259-260: a value written with a percent sign
PercentValue(p) == IF p.ok THEN DivideBy100(p.val) ELSE Dec(0, 0)

\* Lines 255-260: a value written without one
PlainValue(p) ==
    IF ~p.ok THEN Dec(0, 0)
    ELSE IF GreaterThanOne(p.val) THEN DivideBy100(p.val)
    ELSE p.val

\* Lines 250-260: the value of a ctr cell; as for the numeric fields, the
\* NameError of pd.isna is caught and gives 0.
CtrValue(ctr_val) ==
    IF ~PdBound THEN Dec(0, 0)
    ELSE IF ctr_val.kind = "null" THEN Dec(0, 0)
    ELSE IF Contains(ctr_val.text, 37)
         THEN PercentValue(ParseFloat(RemoveChars(ctr_val.text, {37})))
    ELSE PlainValue(ParseFloat(ctr_val.text))

\* Lines 248-266: ctr, from its column or derived from the record's own
\* impressions and views
NormalizeCtr(row, cols, actual, impressions, views) ==
    IF "ctr" \in DOMAIN actual
    THEN CtrValue(CellOf(row, cols, actual["ctr"]))
    ELSE IF impressions > 0 THEN RoundDiv3(views, impressions)
         ELSE Dec(0, 0)

\* pd.to_datetime(text) followed by strftime('%Y-%m-%d'), for text written
\* YYYY-MM-DD or YYYY/MM/DD; any other text fails to parse.
IsDateText(s) ==
    /\ Len(s) = 10
    /\ \A i \in {1, 2, 3, 4, 6, 7, 9, 10} : IsDigit(s[i])
    /\ s[5] \in {45, 47} /\ s[8] = s[5]
    /\ DigitsToInt(SubSeq(s, 6, 7), 0) \in 1..12
    /\ DigitsToInt(SubSeq(s, 9, 10), 0) \in 1..31

ParseDateStripped(s) ==
    IF IsDateText(s)
    THEN [ok |-> TRUE,
          val |-> SubSeq(s, 1, 4) \o <<45>> \o SubSeq(s, 6, 7) \o <<45>> \o SubSeq(s, 9, 10)]
    ELSE [ok |-> FALSE, val |-> <<>>]

ParseDate(text) == ParseDateStripped(Strip(text))

\* text[:n]
Prefix(text, n) == SubSeq(text, 1, IF Len(text) < n THEN Len(text) ELSE n)

NoFields == [f \in {} |-> <<>>]

\* Lines 215-219: the parsed date, or the first ten characters of the text
ParsedOrPrefix(parsed, text) == IF parsed.ok THEN parsed.val ELSE Prefix(text, 10)

\* Lines 211-219
DateText(date_val) ==
    IF date_val.kind = "ts" THEN Prefix(date_val.text, 10)
    ELSE ParsedOrPrefix(ParseDate(date_val.text), date_val.text)

\* Lines 212-220: note['date'] and note['month'] = note['date'][:7]
DateAndMonth(date) ==
    [f \in {"date", "month"} |-> IF f = "date" THEN date ELSE Prefix(date, 7)]

\* Lines 208-220: pd.notna is called outside any try, so with pd unbound
\* its NameError leaves process_data.
DateFields(date_val) ==
    IF ~PdBound THEN [raised |-> TRUE, fields |-> NoFields]
    ELSE IF date_val.kind = "null" THEN [raised |-> FALSE, fields |-> NoFields]
    ELSE [raised |-> FALSE, fields |-> DateAndMonth(DateText(date_val))]

\* Lines 207-220: the date and month entries of the record
NormalizeDate(row, cols, actual) ==
    IF "date" \in DOMAIN actual
    THEN DateFields(CellOf(row, cols, actual["date"]))
    ELSE [raised |-> FALSE, fields |-> NoFields]

\* Lines 230-245: the eight numeric fields
NumericFields(row, cols, actual) ==
    [f \in { numeric_fields[i] : i \in 1..Len(numeric_fields) } |->
        NormalizeNumeric(row, cols, actual, f)]

\* A variant of the record that has a type only when the type column is
\* resolved (the else branch of lines 226-227 left out).
CoreFields_TypeOnlyIfResolved(row, cols, actual, num) ==
    num @@ [f \in {"title", "ctr"} \cup (IF "type" \in DOMAIN actual THEN {"type"} ELSE {}) |->
              IF f = "title" THEN NormalizeTitle(row, cols, actual)
              ELSE IF f = "type" THEN NormalizeType(row, cols, actual)
              ELSE NormalizeCtr(row, cols, actual, num["impressions"], num["views"])]

\* Lines 202, 223-266: title, type and ctr joined to the numeric fields
CoreFields(row, cols, actual, num) ==
    num @@ [f \in {"title", "type", "ctr"} |->
              IF f = "title" THEN NormalizeTitle(row, cols, actual)
              ELSE IF f = "type" THEN NormalizeType(row, cols, actual)
              ELSE NormalizeCtr(row, cols, actual, num["impressions"], num["views"])]

NoteOrRaise(d, core) ==
    IF d.raised THEN [kind |-> "raise", note |-> NoFields]
    ELSE [kind |-> "note", note |-> d.fields @@ core]

\* Lines 197-268: the loop body.  kind is "skip" (continue), "raise" (the
\* exception leaves process_data) or "note" (notes.append(note)).
NormalizeRow(row, cols, actual) ==
    IF "title" \notin DOMAIN actual THEN [kind |-> "skip", note |-> NoFields]
    ELSE NoteOrRaise(NormalizeDate(row, cols, actual),
                     CoreFields(row, cols, actual, NumericFields(row, cols, actual)))

(***************************************************************************)
(* analyze_keywords, lines 288-333.                                        *)
(***************************************************************************)

\* top_n=30 in the signature, and the [:20] of line 300
DefaultTopN == 30
TopNotes == 20

\* note.get(key, default)
Get(note, key, default) == IF key \in DOMAIN note THEN note[key] ELSE default

\* The indices of a set in ascending order
Ascending(S) ==
    [k \in 1..Cardinality(S) |-> CHOOSE x \in S : Cardinality({ y \in S : y < x }) = k - 1]

\* sorted(..., reverse=True) by a key: the permutation it applies.  The
\* element at position i goes behind every element with a larger key and
\* behind the earlier elements with the same key (the sort is stable).
SortedDescOrder(keys) ==
    LET rank == [i \in 1..Len(keys) |->
                    Cardinality({ j \in 1..Len(keys) :
                        keys[j] > keys[i] \/ (keys[j] = keys[i] /\ j < i) })]
    IN  [k \in 1..Len(keys) |-> CHOOSE i \in 1..Len(keys) : rank[i] = k - 1]

\* xs[:n]
Take(xs, n) == SubSeq(xs, 1, IF Len(xs) < n THEN Len(xs) ELSE n)

\* Line 300: the 20 records with the highest metric
TopByMetric(ns, m) ==
    LET order == SortedDescOrder([i \in 1..Len(ns) |-> Get(ns[i], m, 0)])
    IN  Take([k \in 1..Len(ns) |-> ns[order[k]]], TopNotes)

\* Line 303: ' '.join(titles)
RECURSIVE JoinTitles(_, _)
JoinTitles(ns, i) ==
    IF i > Len(ns) THEN <<>>
    ELSE Get(ns[i], "title", <<>>) \o (IF i < Len(ns) THEN <<32>> ELSE <<>>) \o JoinTitles(ns, i + 1)

\* Line 307: the four emoji ranges U+1F600-1F64F, U+1F300-1F5FF,
\* U+1F680-1F6FF, U+1F1E0-1F1FF
IsEmoji(c) ==
    \/ c \in 128512..128591
    \/ c \in 127744..128511
    \/ c \in 128640..128767
    \/ c \in 127462..127487

\* [一-鿿]
IsCJK(c) == c \in 19968..40959

\* The regex class \w: digits, letters, the underscore; of the letters
\* outside ASCII and the CJK block, the hiragana letters.
IsWordChar(c) ==
    \/ c \in 48..57 \/ c \in 65..90 \/ c \in 97..122 \/ c = 95
    \/ IsCJK(c)
    \/ c \in 12353..12438

\* Lines 307-308: emoji removed, then every character that is neither \w,
\* \s nor CJK replaced by a space
CleanTitles(text) ==
    LET noEmoji == SelectSeq(text, LAMBDA c : ~IsEmoji(c))
    IN  [i \in 1..Len(noEmoji) |->
            IF IsWordChar(noEmoji[i]) \/ IsSpace(noEmoji[i]) \/ IsCJK(noEmoji[i])
            THEN noEmoji[i] ELSE 32]

\* str.split(): the maximal runs of non-whitespace characters, each from
\* a start (a non-space at the beginning or after a space) to its end
Split(s) ==
    LET starts == Ascending({ i \in 1..Len(s) :
                      ~IsSpace(s[i]) /\ (i = 1 \/ IsSpace(s[i - 1])) })
        EndOf(i) == CHOOSE j \in i..Len(s) :
                      /\ \A k \in i..j : ~IsSpace(s[k])
                      /\ (j = Len(s) \/ IsSpace(s[j + 1]))
    IN  [k \in 1..Len(starts) |-> SubSeq(s, starts[k], EndOf(starts[k]))]

\* Lines 311-315: the lowercased tokens of length >= 2
TokenWords(titles) ==
    LET tokens == Split(titles)
        lowered == [i \in 1..Len(tokens) |-> Lower(Strip(tokens[i]))]
    IN  SelectSeq(lowered, LAMBDA w : Len(w) >= 2)

\* Line 318: the CJK runs joined, i.e. the CJK characters in order
ChineseText(titles) == SelectSeq(titles, IsCJK)

\* Lines 319-322: every n consecutive characters of the text
NGrams(text, n) ==
    [i \in 1..(IF Len(text) >= n THEN Len(text) - n + 1 ELSE 0) |->
        SubSeq(text, i, i + n - 1)]

\* Lines 311-322: words, in the order they are appended
CandidateWords(titles) ==
    TokenWords(titles) \o NGrams(ChineseText(titles), 2) \o NGrams(ChineseText(titles), 3)

\* Lines 325-327: 的 了 是 在 我 有 和 就 不 人 都 一 个 上 这 为 吗 你 到 说 要 会
\* 来 对 可以 什么 没有 怎么 那么 这个 一个
stopwords == {
    <<30340>>, <<20102>>, <<26159>>, <<22312>>, <<25105>>, <<26377>>, <<21644>>,
    <<23601>>, <<19981>>, <<20154>>, <<37117>>, <<19968>>, <<20010>>, <<19978>>,
    <<36825>>, <<20026>>, <<21527>>, <<20320>>, <<21040>>, <<35828>>, <<35201>>,
    <<20250>>, <<26469>>, <<23545>>, <<21487, 20197>>, <<20160, 20040>>,
    <<27809, 26377>>, <<24590, 20040>>, <<37027, 20040>>, <<36825, 20010>>,
    <<19968, 20010>> }

\* A variant of the filter that keeps the stopwords.
KeptWords_NoStopwords(words) ==
    SelectSeq(words, LAMBDA w : Len(w) >= 2)

\* Line 330: the generator handed to Counter
KeptWords(words) ==
    SelectSeq(words, LAMBDA w : w \notin stopwords /\ Len(w) >= 2)

\* Counter(...): the distinct words in the order of their first occurrence,
\* each with the number of its occurrences
Occurrences(ws, w) == Cardinality({ i \in 1..Len(ws) : ws[i] = w })

Counter(ws) ==
    LET firsts == Ascending({ i \in 1..Len(ws) : \A j \in 1..(i - 1) : ws[j] # ws[i] })
    IN  [k \in 1..Len(firsts) |-> <<ws[firsts[k]], Occurrences(ws, ws[firsts[k]])>>]

\* Counter.most_common(n): descending by count, equal counts in insertion
\* order, the first n
MostCommon(items, n) ==
    LET order == SortedDescOrder([i \in 1..Len(items) |-> items[i][2]])
    IN  Take([k \in 1..Len(items) |-> items[order[k]]], n)

analyze_keywords(ns, m, top_n) ==
    LET sorted_notes == TopByMetric(ns, m)
        titles == CleanTitles(JoinTitles(sorted_notes, 1))
        word_counts == Counter(KeptWords(CandidateWords(titles)))
    IN  MostCommon(word_counts, top_n)

(***************************************************************************)
(* process_data, lines 195-285: the loop over the rows and the Dataset.    *)
(***************************************************************************)

\* Python's < on strings: by code point, a proper prefix being smaller
RECURSIVE LexLess(_, _)
LexLess(a, b) ==
    IF b = <<>> THEN FALSE
    ELSE IF a = <<>> THEN TRUE
    ELSE IF Head(a) # Head(b) THEN Head(a) < Head(b)
    ELSE LexLess(Tail(a), Tail(b))

\* sorted(list(set)) for a set of strings
RECURSIVE SortedStrings(_)
SortedStrings(S) ==
    IF S = {} THEN <<>>
    ELSE LET least == CHOOSE x \in S : \A y \in S \ {x} : LexLess(x, y)
         IN  <<least>> \o SortedStrings(S \ {least})

\* Line 273: the months of the records that have a non-empty month
Months(ns) ==
    SortedStrings({ Get(ns[i], "month", <<>>) : i \in { j \in 1..Len(ns) : Get(ns[j], "month", <<>>) # <<>> } })

\* Lines 197-268: the rows in order; an exception ends the loop.
RECURSIVE NormalizeRows(_, _, _, _, _)
NormalizeRows(rows, cols, actual, i, acc) ==
    IF i > Len(rows) THEN [raised |-> FALSE, notes |-> acc]
    ELSE LET r == NormalizeRow(rows[i], cols, actual)
         IN  IF r.kind = "raise" THEN [raised |-> TRUE, notes |-> <<>>]
             ELSE NormalizeRows(rows, cols, actual, i + 1,
                                IF r.kind = "note" THEN Append(acc, r.note) ELSE acc)

NoData == [kind |-> "None"]

\* process_data(df): the Dataset it returns, or the exception it raises
process_data(table) ==
    LET actual == ResolveColumns(table.columns)
        r == NormalizeRows(table.rows, table.columns, actual, 1, <<>>)
    IN  IF r.raised THEN [kind |-> "raised"]
        ELSE [kind |-> "Dataset",
              notes |-> r.notes,
              months |-> Months(r.notes),
              highLikesKeywords |-> analyze_keywords(r.notes, "likes", DefaultTopN),
              highFollowersKeywords |-> analyze_keywords(r.notes, "followers", DefaultTopN)]

(***************************************************************************)
(* The inputs: the tables read_excel_data may return, the column labels    *)
(* the resolver is run on, the records analyze_keywords is run on.         *)
(***************************************************************************)
MaxRows == 3
MaxCols == 2
MaxPrefix == 2

SeqsUpTo(S, n) == UNION { [1..k -> S] : k \in 0..n }

NoTable == [kind |-> "None"]

\* '测试标题一', '测试标题二', '春日穿搭'
Title1 == <<27979, 35797, 26631, 39064, 19968>>
Title2 == <<27979, 35797, 26631, 39064, 20108>>
Title3 == <<26149, 26085, 31359, 25645>>

\* Columns title, likes, impressions, views
LayoutA ==
    << <<116, 105, 116, 108, 101>>, <<108, 105, 107, 101, 115>>,
       <<105, 109, 112, 114, 101, 115, 115, 105, 111, 110, 115>>,
       <<118, 105, 101, 119, 115>> >>

RowsA == {
    \* '测试标题一', 100, 500, 100
    << StrCell(Title1), NumCell(<<49, 48, 48>>), NumCell(<<53, 48, 48>>), NumCell(<<49, 48, 48>>) >>,
    \* '', 999, NaN, NaN
    << StrCell(<<>>), NumCell(<<57, 57, 57>>), NullCell, NullCell >>,
    \* '测试标题二', 50, 0, NaN
    << StrCell(Title2), NumCell(<<53, 48>>), NumCell(<<48>>), NullCell >>,
    \* '  ', 'abc', '1,234', -3.7
    << StrCell(<<32, 32>>), StrCell(<<97, 98, 99>>), StrCell(<<49, 44, 50, 51, 52>>),
       NumCell(<<45, 51, 46, 55>>) >>,
    \* '春日穿搭', '', 1000, 250
    << StrCell(Title3), StrCell(<<>>), NumCell(<<49, 48, 48, 48>>), NumCell(<<50, 53, 48>>) >> }

\* Columns 标题, 发布时间
LayoutB == << <<26631, 39064>>, <<21457, 24067, 26102, 38388>> >>

RowsB == {
    \* '春日穿搭', Timestamp('2024-03-15 00:00:00')
    << StrCell(Title3),
       TsCell(<<50, 48, 50, 52, 45, 48, 51, 45, 49, 53, 32, 48, 48, 58, 48, 48, 58, 48, 48>>) >>,
    \* '测试标题一', '2024-03-15'
    << StrCell(Title1), StrCell(<<50, 48, 50, 52, 45, 48, 51, 45, 49, 53>>) >>,
    \* '测试标题二', NaT
    << StrCell(Title2), NullCell >>,
    \* '测试标题二', '2023/12/01'
    << StrCell(Title2), StrCell(<<50, 48, 50, 51, 47, 49, 50, 47, 48, 49>>) >> }

\* Columns 笔记标题, 点击率, 笔记类型
LayoutC ==
    << <<31508, 35760, 26631, 39064>>, <<28857, 20987, 29575>>,
       <<31508, 35760, 31867, 22411>> >>

RowsC == {
    \* '测试标题一', '15%', '视频'
    << StrCell(Title1), StrCell(<<49, 53, 37>>), StrCell(<<35270, 39057>>) >>,
    \* '测试标题二', 2.5, '图文'
    << StrCell(Title2), NumCell(<<50, 46, 53>>), StrCell(<<22270, 25991>>) >>,
    \* NaN, 0.5, NaN
    << NullCell, NumCell(<<48, 46, 53>>), NullCell >>,
    \* '春日穿搭', 'abc', ' 视频笔记 '
    << StrCell(Title3), StrCell(<<97, 98, 99>>), StrCell(<<32, 35270, 39057, 31508, 35760, 32>>) >> }

\* Column 不相关, which resolves to no field
LayoutD == << <<19981, 30456, 20851>> >>
RowsD == { << StrCell(<<120>>) >> }

\* No column at all
LayoutE == << >>
RowsE == { }

\* Columns 点赞数, 曝光量: no title column
LayoutF == << <<28857, 36190, 25968>>, <<26333, 20809, 37327>> >>
RowsF == { << NumCell(<<49, 48>>), NumCell(<<50, 48>>) >> }

Table(cols, rows) == [kind |-> "DataFrame", columns |-> cols, rows |-> rows]

Tables ==
    UNION { { Table(l[1], rows) : rows \in SeqsUpTo(l[2], MaxRows) } :
            l \in { <<LayoutA, RowsA>>, <<LayoutB, RowsB>>, <<LayoutC, RowsC>>,
                    <<LayoutD, RowsD>>, <<LayoutE, RowsE>>, <<LayoutF, RowsF>> } }

\* 'title', 'Title ', 'TITLE', '副标题', '不相关', 'like', 'LIKES', '点赞数量', '赞', '标题'
Labels == {
    <<116, 105, 116, 108, 101>>, <<84, 105, 116, 108, 101, 32>>, <<84, 73, 84, 76, 69>>,
    <<21103, 26631, 39064>>, <<19981, 30456, 20851>>, <<108, 105, 107, 101>>,
    <<76, 73, 75, 69, 83>>, <<28857, 36190, 25968, 37327>>, <<36190>>,
    <<26631, 39064>> }

\* df.columns: pandas gives the columns of a sheet distinct labels
ColumnLists ==
    { cs \in SeqsUpTo(Labels, MaxCols) :
        \A i, j \in 1..Len(cs) : i # j => cs[i] # cs[j] }

\* Records for analyze_keywords.  Titles: '春夏秋冬东南西北上下左右天地日月星',
\* '我的 Cat!😀可以的的', '穿搭 OOTD', '好物'
LongTitle ==
    << 26149, 22799, 31179, 20908, 19996, 21335, 35199, 21271, 19978, 19979,
       24038, 21491, 22825, 22320, 26085, 26376, 26143 >>
MixedTitle == <<25105, 30340, 32, 67, 97, 116, 33, 128512, 21487, 20197, 30340, 30340>>
TagTitle == <<31359, 25645, 32, 79, 79, 84, 68>>
FillerTitle == <<22909, 29289>>

KwNote(t, l, f) == [title |-> t, likes |-> l, followers |-> f]

KwNotes == {
    KwNote(LongTitle, 9, 0), KwNote(MixedTitle, 0, 9), KwNote(TagTitle, 5, 5),
    KwNote(MixedTitle, 9, 2), [title |-> TagTitle] }

FillerNote == KwNote(FillerTitle, 5, 5)

Fillers(n) == [i \in 1..n |-> FillerNote]

\* A few chosen records before or after a run of equal ones, the run being
\* empty or about as long as the selection of line 300
KwInputs ==
    { p \o Fillers(n) : p \in SeqsUpTo(KwNotes, MaxPrefix), n \in {0, TopNotes - 1, TopNotes} }
    \cup { Fillers(n) \o p : p \in SeqsUpTo(KwNotes, MaxPrefix), n \in {TopNotes - 1, TopNotes} }

(***************************************************************************)
(* main, lines 414-460, and the steps it calls.                            *)
(***************************************************************************)

\* Lines 424-427
AfterFind(path) == IF path = "None" THEN "exit" ELSE "read"

\* Lines 430-433
AfterRead(table) == IF table = NoTable THEN "exit" ELSE "process"

\* Lines 436-442
AfterProcess(result) == IF result.kind = "raised" THEN "exit" ELSE "update"

\* A variant of line 445 that goes on to the push whatever update_html
\* returned.
AfterUpdate_AlwaysPush(ok) == "push"

\* Lines 445-447
AfterUpdate(ok) == IF ok THEN "push" ELSE "exit"

\* Lines 453-460: the summary reads data['months'][0] and [-1], an
\* IndexError on an empty list that nothing catches; else the last prompt.
AfterSummary(d) == IF d.months = <<>> THEN "crashed" ELSE "done"

resolverIdle == columns = <<>> /\ actual_columns = NoFields
keywordIdle == notes = <<>> /\ metric = "likes" /\ keywords = <<>>

Init ==
    /\ pc = "find"
    /\ excel_path = "unset"
    /\ df = NoTable
    /\ data = NoData
    /\ html = "old"
    /\ steps = <<>>
    /\ updated = "unset"
    /\ pushed = "unset"
    /\ resolverIdle
    /\ keywordIdle

\* find_latest_excel, lines 58-98: the newest matching file, or None
FindLatestExcel ==
    /\ pc = "find"
    /\ steps' = Append(steps, 1)
    /\ \E path \in {"None", "file"} :
          /\ excel_path' = path
          /\ pc' = AfterFind(path)
    /\ UNCHANGED << df, data, html, updated, pushed, resolverVars, keywordVars >>

\* read_excel_data, lines 101-138: None when pandas is missing or the file
\* cannot be read, else the table
ReadExcelData ==
    /\ pc = "read"
    /\ steps' = Append(steps, 2)
    /\ \E table \in Tables \cup {NoTable} :
          /\ df' = table
          /\ pc' = AfterRead(table)
    /\ UNCHANGED << excel_path, data, html, updated, pushed, resolverVars, keywordVars >>

\* Lines 436-442: process_data(df) under main's try
ProcessData ==
    /\ pc = "process"
    /\ steps' = Append(steps, 3)
    /\ data' = process_data(df)
    /\ pc' = AfterProcess(data')
    /\ UNCHANGED << excel_path, df, html, updated, pushed, resolverVars, keywordVars >>

\* update_html, lines 336-372.  It fails before the file is opened for
\* writing (the read, json.dumps or re.sub raises, or the open itself), or
\* while writing to the file open() has already truncated, or it succeeds.
UpdateHtml ==
    /\ pc = "update"
    /\ steps' = Append(steps, 4)
    /\ \E outcome \in {"fails_before_write", "fails_in_write", "written"} :
          /\ html' = CASE outcome = "fails_before_write" -> html
                       [] outcome = "fails_in_write" -> "truncated"
                       [] outcome = "written" -> "new"
          /\ updated' = IF outcome = "written" THEN "True" ELSE "False"
          /\ pc' = AfterUpdate(outcome = "written")
    /\ UNCHANGED << excel_path, df, data, pushed, resolverVars, keywordVars >>

\* push_to_github, lines 375-411; main ignores its result
PushToGithub ==
    /\ pc = "push"
    /\ steps' = Append(steps, 5)
    /\ \E ok \in {"True", "False"} : pushed' = ok
    /\ pc' = "summary"
    /\ UNCHANGED << excel_path, df, data, html, updated, resolverVars, keywordVars >>

\* Lines 453-460
Summary ==
    /\ pc = "summary"
    /\ pc' = AfterSummary(data)
    /\ UNCHANGED << mainVars, resolverVars, keywordVars >>

Next ==
    \/ FindLatestExcel
    \/ ReadExcelData
    \/ ProcessData
    \/ UpdateHtml
    \/ PushToGithub
    \/ Summary

Spec == Init /\ [][Next]_vars

(***************************************************************************)
(* The resolver on its own: any list of column labels.                     *)
(***************************************************************************)
mainIdle ==
    /\ excel_path = "unset" /\ df = NoTable /\ data = NoData /\ html = "old"
    /\ steps = <<>> /\ updated = "unset" /\ pushed = "unset"

InitResolve ==
    /\ pc = "resolve"
    /\ columns \in ColumnLists
    /\ actual_columns = NoFields
    /\ mainIdle
    /\ keywordIdle

Resolve ==
    /\ pc = "resolve"
    /\ actual_columns' = ResolveColumns(columns)
    /\ pc' = "resolved"
    /\ UNCHANGED << columns, mainVars, keywordVars >>

NextResolve == Resolve

SpecResolve == InitResolve /\ [][NextResolve]_vars

(***************************************************************************)
(* analyze_keywords on its own: any record sequence and either metric.     *)
(***************************************************************************)
InitKeywords ==
    /\ pc = "analyze"
    /\ notes \in KwInputs
    /\ metric \in {"likes", "followers"}
    /\ keywords = <<>>
    /\ mainIdle
    /\ resolverIdle

Analyze ==
    /\ pc = "analyze"
    /\ keywords' = analyze_keywords(notes, metric, DefaultTopN)
    /\ pc' = "analyzed"
    /\ UNCHANGED << notes, metric, mainVars, resolverVars >>

NextKeywords == Analyze

SpecKeywords == InitKeywords /\ [][NextKeywords]_vars

(***************************************************************************)
(* Properties of process_data and main, checked under Spec.                *)
(***************************************************************************)

\* process_data has returned a Dataset
Returned == data.kind = "Dataset"

\* The column map of the table read
ActualOfDf == ResolveColumns(df.columns)

\* str(row[title column]).strip() of row i of the table read
TitleOfRow(i) == Strip(CellOf(df.rows[i], df.columns, ActualOfDf["title"]).text)

\* The titles a Dataset should hold if rows with an empty title are dropped
ExpectedTitles ==
    IF "title" \notin DOMAIN ActualOfDf THEN <<>>
    ELSE SelectSeq([i \in 1..Len(df.rows) |-> TitleOfRow(i)], LAMBDA t : t # <<>>)

\* C1: a row whose title is empty or whitespace-only after stringify-and-trim,
\* or whose title field is unresolved, produces no record; every other row
\* produces exactly one record, in input order.
C1_EmptyTitlesDropped ==
    Returned =>
        [i \in 1..Len(data.notes) |-> data.notes[i]["title"]] = ExpectedTitles

\* The value the numeric field f of row i should have: 0 when the field is
\* unresolved, the cell is null or its text does not parse, else the parsed
\* number truncated toward zero.
ExpectedNumeric(i, f) ==
    IF f \notin DOMAIN ActualOfDf THEN 0
    ELSE IF CellOf(df.rows[i], df.columns, ActualOfDf[f]).kind = "null" THEN 0
    ELSE IntOrZero(ParseFloat(RemoveChars(
             CellOf(df.rows[i], df.columns, ActualOfDf[f]).text, {44, 37})))

\* Every row of the table read has its own record, in order
OneRecordPerRow == Returned /\ Len(data.notes) = Len(df.rows)

\* C3: every numeric field of every record is 0 when the field is unresolved,
\* null or unparseable, and otherwise the parsed number truncated toward zero.
C3_NumericParsed ==
    OneRecordPerRow =>
        \A i \in 1..Len(df.rows) : \A k \in 1..Len(numeric_fields) :
            data.notes[i][numeric_fields[k]] = ExpectedNumeric(i, numeric_fields[k])

\* The ctr row i should have, given the record made of it
ExpectedCtr(i, note) ==
    IF "ctr" \in DOMAIN ActualOfDf
    THEN IF CellOf(df.rows[i], df.columns, ActualOfDf["ctr"]).kind = "null" THEN Dec(0, 0)
         ELSE IF Contains(CellOf(df.rows[i], df.columns, ActualOfDf["ctr"]).text, 37)
              THEN PercentValue(ParseFloat(RemoveChars(
                       CellOf(df.rows[i], df.columns, ActualOfDf["ctr"]).text, {37})))
         ELSE PlainValue(ParseFloat(CellOf(df.rows[i], df.columns, ActualOfDf["ctr"]).text))
    ELSE IF note["impressions"] > 0 THEN RoundDiv3(note["views"], note["impressions"])
         ELSE Dec(0, 0)

\* C4: ctr is the column's value (divided by 100 when written with a percent
\* sign or greater than 1, 0 on null or a parse failure) when the ctr column
\* is resolved, and views/impressions rounded to 3 decimals (0 when
\* impressions is 0) computed from the record's own metrics when it is not.
C4_CtrParsed ==
    OneRecordPerRow =>
        \A i \in 1..Len(df.rows) : data.notes[i]["ctr"] = ExpectedCtr(i, data.notes[i])

\* The thirteen output fields, and those of them that are not date or month
OutputFields ==
    { "title", "date", "month", "type", "impressions", "views", "ctr", "likes",
      "comments", "collects", "followers", "shares", "avgViewTime" }

AlwaysFields == OutputFields \ {"date", "month"}

\* Each field of a record that is present holds a value of its type
WellTyped(note) ==
    /\ note["type"] \in {Video, ImageText}
    /\ \A k \in 1..Len(numeric_fields) : note[numeric_fields[k]] \in Int
    /\ note["ctr"].m \in Int /\ note["ctr"].e \in Nat

\* C5 as stated: every record has all thirteen output fields, also when the
\* date column is unresolved.
C5_AllThirteenFields ==
    Returned => \A i \in 1..Len(data.notes) : OutputFields \subseteq DOMAIN data.notes[i]

\* C5 as amended: every record has the eleven fields other than date and
\* month, each with a value of its type; date and month are present together
\* or not at all, and both are absent when the date column is unresolved.
C5_ElevenFieldsAlways ==
    Returned =>
        \A i \in 1..Len(data.notes) :
            /\ AlwaysFields \subseteq DOMAIN data.notes[i]
            /\ DOMAIN data.notes[i] \subseteq OutputFields
            /\ WellTyped(data.notes[i])
            /\ ("date" \in DOMAIN data.notes[i]) <=> ("month" \in DOMAIN data.notes[i])
            /\ "date" \notin DOMAIN ActualOfDf => "date" \notin DOMAIN data.notes[i]

\* C5 witness: a record made from a table without a date column
C5_Witness ==
    /\ Returned
    /\ data.notes # <<>>
    /\ "date" \notin DOMAIN ActualOfDf
    /\ "date" \notin DOMAIN data.notes[1]

\* The rows of the table read that carry a date: title and date columns
\* resolved, the date cell not null
DatedRows ==
    IF {"title", "date"} \subseteq DOMAIN ActualOfDf
    THEN { i \in 1..Len(df.rows) :
             CellOf(df.rows[i], df.columns, ActualOfDf["date"]).kind # "null" }
    ELSE {}

\* C6: process_data returns a Dataset in which each record that has a date
\* (the record of every row that carries one) has month equal to the first 7
\* characters of its date, and whose months list is strictly ascending and
\* holds exactly the non-empty months of the records.
C6_MonthsDerived ==
    data # NoData =>
        /\ Returned
        /\ \A i \in DatedRows :
              /\ i <= Len(data.notes)
              /\ {"date", "month"} \subseteq DOMAIN data.notes[i]
        /\ \A i \in 1..Len(data.notes) :
              "date" \in DOMAIN data.notes[i] =>
                  Get(data.notes[i], "month", <<>>) = Prefix(data.notes[i]["date"], 7)
        /\ \A k \in 1..(Len(data.months) - 1) : LexLess(data.months[k], data.months[k + 1])
        /\ { data.months[k] : k \in 1..Len(data.months) } =
              { Get(data.notes[i], "month", <<>>) : i \in 1..Len(data.notes) } \ { <<>> }

\* The table read is empty, or none of its columns resolves, or it has no
\* date column
Degenerate ==
    \/ df.rows = <<>>
    \/ DOMAIN ActualOfDf = {}
    \/ "date" \notin DOMAIN ActualOfDf

\* C8: on an empty table, a table none of whose columns resolves, or a table
\* without a date column, process_data returns a Dataset with empty months
\* (and no notes and no keywords when no title resolves), and the run of main
\* that publishes it goes on to its final prompt without an unhandled
\* exception.
C8_DegenerateRunCompletes ==
    (df # NoTable /\ data # NoData /\ Degenerate) =>
        /\ Returned
        /\ data.months = <<>>
        /\ "title" \notin DOMAIN ActualOfDf =>
              /\ data.notes = <<>>
              /\ data.highLikesKeywords = <<>>
              /\ data.highFollowersKeywords = <<>>
        /\ updated = "True" => pc # "crashed"

\* x in steps
Ran(n) == Contains(steps, n)

\* The steps run in the order 1..5, none skipped and none repeated
StepsInOrder == steps = [i \in 1..Len(steps) |-> i]

\* A step runs only if every earlier step succeeded
StepsGated ==
    /\ Ran(2) => excel_path = "file"
    /\ Ran(3) => df # NoTable
    /\ Ran(4) => Returned
    /\ Ran(5) => updated = "True"

\* After main has returned early, the last step run is the one that failed
\* and nothing more can happen
EarlyExit ==
    pc = "exit" =>
        /\ \/ steps = <<1>> /\ excel_path = "None"
           \/ steps = <<1, 2>> /\ df = NoTable
           \/ steps = <<1, 2, 3>> /\ data.kind = "raised"
           \/ steps = <<1, 2, 3, 4>> /\ updated = "False"
        /\ ~ENABLED Next

\* Some step of the run has failed
SomeFailure ==
    \/ pc \in {"exit", "crashed"}
    \/ updated = "False"
    \/ pushed = "False"

\* C10 as stated: the steps run in order, each only if all earlier ones
\* succeeded, and after any failure no later step executes and the host
\* document is left unwritten by the run.
C10_UnwrittenAfterAnyFailure ==
    /\ StepsInOrder
    /\ StepsGated
    /\ EarlyExit
    /\ SomeFailure => html = "old"

\* C10 as amended: the steps run in order, each only if all earlier ones
\* succeeded; after a failure of find, read or process no later step executes
\* and the document is left unwritten; after a failure of update_html no
\* later step executes and the document is unchanged or truncated; the
\* document holds the new data exactly when update_html returned True, which
\* is before push_to_github can fail.
C10_StepsGatedAndDocument ==
    /\ StepsInOrder
    /\ StepsGated
    /\ EarlyExit
    /\ ~Ran(4) => html = "old"
    /\ updated = "False" => html \in {"old", "truncated"}
    /\ html = "new" <=> updated = "True"
    /\ pushed = "False" => html = "new"

\* C10 witness: process_data raised, main returned, the document is untouched
C10_Witness ==
    /\ pc = "exit"
    /\ steps = <<1, 2, 3>>
    /\ data.kind = "raised"
    /\ html = "old"

(***************************************************************************)
(* Properties of the column resolver, checked under SpecResolve.           *)
(***************************************************************************)

\* name occurs in the label col as written, or ignoring case
CandInLabel(name, col) ==
    \E i \in 1..Len(col) : \E j \in i..Len(col) :
        \/ SubSeq(col, i, j) = name
        \/ SubSeq(Lower(col), i, j) = Lower(name)

\* the label col occurs in name, ignoring case
LabelInCand(name, col) ==
    \E i \in 1..Len(name) : \E j \in i..Len(name) :
        SubSeq(Lower(name), i, j) = Lower(col)

\* col matches name exactly, or case-insensitively after trimming
ExactOrCI(name, col) == col = name \/ Strip(Lower(col)) = Lower(name)

ColumnSet == { columns[c] : c \in 1..Len(columns) }

\* The candidates of field f that match some label under the three tiers
\* of the code, and under the three tiers with the substring tier taken in
\* either direction
Hits(f) ==
    { k \in 1..Len(column_mappings[f]) :
        \E col \in ColumnSet :
            ExactOrCI(column_mappings[f][k], col) \/ CandInLabel(column_mappings[f][k], col) }

HitsEitherWay(f) ==
    { k \in 1..Len(column_mappings[f]) :
        \E col \in ColumnSet :
            \/ ExactOrCI(column_mappings[f][k], col)
            \/ CandInLabel(column_mappings[f][k], col)
            \/ LabelInCand(column_mappings[f][k], col) }

First(S) == CHOOSE k \in S : \A j \in S : k <= j

\* picked is a label of the best tier any label reaches for name
BestTier(name, picked) ==
    /\ picked \in ColumnSet
    /\ IF name \in ColumnSet THEN picked = name
       ELSE IF \E col \in ColumnSet : ExactOrCI(name, col) THEN ExactOrCI(name, picked)
       ELSE CandInLabel(name, picked)

BestTierEitherWay(name, picked) ==
    /\ picked \in ColumnSet
    /\ IF name \in ColumnSet THEN picked = name
       ELSE IF \E col \in ColumnSet : ExactOrCI(name, col) THEN ExactOrCI(name, picked)
       ELSE CandInLabel(name, picked) \/ LabelInCand(name, picked)

\* C2 as stated: whenever some label matches one of a field's candidates
\* exactly or case-insensitively, the column picked for the field matches a
\* candidate exactly or case-insensitively.
C2_ExactBeatsSubstring ==
    pc = "resolved" =>
        \A f \in Fields :
            (\E k \in 1..Len(column_mappings[f]) : \E col \in ColumnSet :
                 ExactOrCI(column_mappings[f][k], col))
            => /\ f \in DOMAIN actual_columns
               /\ \E k \in 1..Len(column_mappings[f]) :
                      ExactOrCI(column_mappings[f][k], actual_columns[f])

\* C2 as amended: whenever some label matches exactly or case-insensitively
\* the first candidate of a field that matches any label under any tier, the
\* column picked for the field matches that candidate exactly or
\* case-insensitively, never a label that only contains it.
C2_ExactBeatsSubstringOfSameCandidate ==
    pc = "resolved" =>
        \A f \in Fields :
            (/\ Hits(f) # {}
             /\ \E col \in ColumnSet : ExactOrCI(column_mappings[f][First(Hits(f))], col))
            => /\ f \in DOMAIN actual_columns
               /\ ExactOrCI(column_mappings[f][First(Hits(f))], actual_columns[f])

\* C2 witness: the deciding candidate of the title field is matched exactly
\* by one label and only contained in an earlier label, and the exact one is
\* picked.
C2_Witness ==
    /\ pc = "resolved"
    /\ Hits("title") # {}
    /\ \E a \in 1..Len(columns) : \E b \in (a + 1)..Len(columns) :
          /\ ~ExactOrCI(column_mappings["title"][First(Hits("title"))], columns[a])
          /\ CandInLabel(column_mappings["title"][First(Hits("title"))], columns[a])
          /\ columns[b] = column_mappings["title"][First(Hits("title"))]
          /\ actual_columns["title"] = columns[b]

\* C9 as stated: the first candidate, in listed order, that matches any label
\* exactly, case-insensitively or as a substring in either direction decides
\* the field, by the best of these tiers; the field is omitted only if no
\* candidate matches any label under any of them.
C9_SubstringEitherWay ==
    pc = "resolved" =>
        \A f \in Fields :
            IF HitsEitherWay(f) = {} THEN f \notin DOMAIN actual_columns
            ELSE /\ f \in DOMAIN actual_columns
                 /\ BestTierEitherWay(column_mappings[f][First(HitsEitherWay(f))],
                                      actual_columns[f])

\* C9 as amended: the first candidate, in listed order, that matches any
\* label exactly, case-insensitively or by being contained in a label decides
\* the field, by the best of these tiers; the field is omitted exactly when
\* no candidate matches any label under these three tiers.  A label that is
\* contained in a candidate is no match.
C9_CandidateInLabelOnly ==
    pc = "resolved" =>
        \A f \in Fields :
            IF Hits(f) = {} THEN f \notin DOMAIN actual_columns
            ELSE /\ f \in DOMAIN actual_columns
                 /\ BestTier(column_mappings[f][First(Hits(f))], actual_columns[f])

\* C9 witness: one field is decided by the substring tier while another is
\* omitted although one of the labels is contained in one of its candidates.
C9_Witness ==
    /\ pc = "resolved"
    /\ \E f \in DOMAIN actual_columns :
          /\ ~\E col \in ColumnSet : ExactOrCI(column_mappings[f][First(Hits(f))], col)
          /\ CandInLabel(column_mappings[f][First(Hits(f))], actual_columns[f])
    /\ \E g \in Fields \ DOMAIN actual_columns : HitsEitherWay(g) # {}

(***************************************************************************)
(* Properties of analyze_keywords, checked under SpecKeywords.             *)
(***************************************************************************)

\* The candidate stream of the notes analysed: the tokens, bigrams and
\* trigrams of the cleaned titles of the top notes by the metric
Stream == CandidateWords(CleanTitles(JoinTitles(TopByMetric(notes, metric), 1)))

\* The words of the stream that may be counted
Countable(w) == w \notin stopwords /\ Len(w) >= 2

CountIn(ws, w) == Cardinality({ i \in 1..Len(ws) : ws[i] = w })

FirstIn(ws, w) == CHOOSE i \in 1..Len(ws) : ws[i] = w /\ \A j \in 1..(i - 1) : ws[j] # w

\* w with count cw ranks before v with count cv
RanksBefore(ws, w, cw, v, cv) ==
    cw > cv \/ (cw = cv /\ FirstIn(ws, w) < FirstIn(ws, v))

WordsOf(kws) == { kws[k][1] : k \in 1..Len(kws) }

\* kws is the head, at most DefaultTopN long, of the frequency table of the
\* countable words of the stream ws
RankedHead(ws, kws) ==
    /\ \A k \in 1..Len(kws) :
          /\ Countable(kws[k][1])
          /\ kws[k][2] = CountIn(ws, kws[k][1])
          /\ kws[k][2] > 0
    /\ \A k \in 1..(Len(kws) - 1) :
          RanksBefore(ws, kws[k][1], kws[k][2], kws[k + 1][1], kws[k + 1][2])
    /\ \A i \in 1..Len(ws) :
          (Countable(ws[i]) /\ ws[i] \notin WordsOf(kws)) =>
              /\ Len(kws) = DefaultTopN
              /\ RanksBefore(ws, kws[DefaultTopN][1], kws[DefaultTopN][2],
                             ws[i], CountIn(ws, ws[i]))

\* The stream ws holds a stopword and a countable word that kws leaves out
CrowdedStream(ws, kws) ==
    /\ \E i \in 1..Len(ws) : ws[i] \in stopwords
    /\ \E i \in 1..Len(ws) : Countable(ws[i]) /\ ws[i] \notin WordsOf(kws)

\* The notes analysed are no more than TopNotes and none of the notes left
\* out has a larger metric than a note taken
TopSelection(sel) ==
    /\ Len(sel) = (IF Len(notes) < TopNotes THEN Len(notes) ELSE TopNotes)
    /\ \A k \in 1..(Len(sel) - 1) : Get(sel[k], metric, 0) >= Get(sel[k + 1], metric, 0)
    /\ \A k \in 1..Len(sel) : \E i \in 1..Len(notes) : notes[i] = sel[k]
    /\ \A i \in 1..Len(notes) :
          \/ \E k \in 1..Len(sel) : sel[k] = notes[i]
          \/ Get(notes[i], metric, 0) <= Get(sel[Len(sel)], metric, 0)

\* C7: analyze_keywords returns the first top_n (default 30) entries of the
\* frequency table of the candidate stream of the 20 highest-metric records
\* after removing stopwords and candidates shorter than 2 characters, ordered
\* by descending count with ties in order of first occurrence in the stream;
\* no stopword appears in the output.
C7_TopFrequencies ==
    pc = "analyzed" =>
        /\ TopSelection(TopByMetric(notes, metric))
        /\ RankedHead(Stream, keywords)

\* C7 witness: more than 20 notes, a stopword in the stream, more countable
\* words than fit, and two output words of equal count.
C7_Witness ==
    /\ pc = "analyzed"
    /\ Len(notes) > TopNotes
    /\ Len(keywords) = DefaultTopN
    /\ \E k \in 1..(Len(keywords) - 1) : keywords[k][2] = keywords[k + 1][2]
    /\ CrowdedStream(Stream, keywords)

====
